---------------------------- MODULE Spec2Model ----------------------------
(***************************************************************************)
(* A model of case_cleaning.py: the cell normalizer (normalize_cell and    *)
(* _fix_invalid_time), the chunk splitter (split_csv), the integrity       *)
(* validator (validate_data) and the pipeline that main() runs.            *)
(*                                                                         *)
(* Text is a sequence of one-character strings, so that trimming, regular  *)
(* expression matching and CSV sizes are computed character by character.  *)
(* A missing cell (pandas' NaN) is the value NaN, which no text equals.    *)
(***************************************************************************)
EXTENDS Integers, Sequences, FiniteSets, TLC

VARIABLES
    pc,                \* where the modelled call stands
    text, fixed,       \* _fix_invalid_time: its argument and its result
    val, parse, ret,   \* normalize_cell: its argument, what pandas' parser
                       \* makes of the repaired text, and its result
    input,             \* the table pd.read_csv yields for input_file
    df,                \* main's / split_csv's data frame
    max_rows,          \* config["max_rows"]
    max_allowed_size,  \* split_csv's byte ceiling (max_size_mb * 0.99), in bytes
    cleaned_file,      \* the file at config["cleaned_file"]
    split_dir,         \* the directory config["split_dir"]: file name -> file
    report_file,       \* the file at config["report_file"]
    start, end, part,  \* split_csv's cursor, chunk end and part counter
    size_b,            \* the size split_csv last measured, in bytes
    chunks,            \* history: the chunks split_csv has recorded
    logged,            \* main printed "Failed to read CSV"
    deleted            \* history: the row removed from a chunk file, if any

vars == <<pc, text, fixed, val, parse, ret, input, df, max_rows,
          max_allowed_size, cleaned_file, split_dir, report_file,
          start, end, part, size_b, chunks, logged, deleted>>

timeVars == <<text, fixed>>
normVars == <<val, parse, ret>>
pipeVars == <<input, df, max_rows, max_allowed_size, cleaned_file, split_dir,
              report_file, start, end, part, size_b, chunks, logged, deleted>>

-----------------------------------------------------------------------------
(* Bounds of the model.                                                    *)

MaxTextLen == 7      \* longest argument of _fix_invalid_time
MaxTokens == 4       \* most tokens a normalize_cell argument is built from
MaxTableRows == 3    \* most rows of the input table
MaxRowLimit == 3     \* largest max_rows
MaxCeilK == 5        \* byte ceilings are 8, 16, ..., 8 * MaxCeilK

-----------------------------------------------------------------------------
(* Characters and text.                                                    *)

NaN == <<"<NaN>">>

DigitChars == <<"0", "1", "2", "3", "4", "5", "6", "7", "8", "9">>
Digits == {DigitChars[i] : i \in 1..10}
Letters == {"a", "x", "T", "Z", "N", "U", "L", "n"}
WordChars == Digits \cup Letters \cup {"_"}
Spaces == {" ", "\t", "\n"}

Min(a, b) == IF a < b THEN a ELSE b
Max(a, b) == IF a > b THEN a ELSE b

\* The character of s at position i, or None beyond its end.
At(s, i) == IF i >= 1 /\ i <= Len(s) THEN s[i] ELSE "<None>"

\* s[i..j], cut to the positions s has (empty when j < i).
Slice(s, i, j) ==
    IF j < i \/ i > Len(s) \/ j < 1 THEN <<>>
    ELSE SubSeq(s, Max(1, i), Min(Len(s), j))

\* int(val_str) for a string of decimal digits.
RECURSIVE int(_)
int(val_str) ==
    IF val_str = <<>> THEN 0
    ELSE 10 * int(Slice(val_str, 1, Len(val_str) - 1))
         + ((CHOOSE d \in 1..10 : DigitChars[d] = val_str[Len(val_str)]) - 1)

\* f"{v:02d}" for 0 <= v <= 99.
Fmt02d(v) == <<DigitChars[(v \div 10) + 1], DigitChars[(v % 10) + 1]>>

\* str.strip(): leading and trailing whitespace removed.
RECURSIVE lstrip(_)
lstrip(s) == IF s # <<>> /\ s[1] \in Spaces THEN lstrip(Tail(s)) ELSE s
RECURSIVE rstrip(_)
rstrip(s) ==
    IF s # <<>> /\ s[Len(s)] \in Spaces THEN rstrip(Slice(s, 1, Len(s) - 1)) ELSE s
strip(s) == rstrip(lstrip(s))

\* All texts over alphabet A of length at most n.
TextsUpTo(A, n) == UNION {[1..k -> A] : k \in 0..n}

-----------------------------------------------------------------------------
(* _clamp_2d and _fix_invalid_time (lines 31-51).                          *)

\* A variant that wraps instead of clamping.
clamp_2d_wrap(val_str, maxv) == Fmt02d(int(val_str) % (maxv + 1))

\* _clamp_2d: int() cannot fail on the digits TIME_REGEX captures.
clamp_2d(val_str, maxv) == Fmt02d(Max(0, Min(maxv, int(val_str))))

\* How many digits \d{1,2} takes at position i: two when it can (greedy),
\* else one, else 0 (no match).
DigitRun(s, i) ==
    IF At(s, i) \in Digits
    THEN (IF At(s, i + 1) \in Digits THEN 2 ELSE 1)
    ELSE 0

\* TIME_REGEX tried at position i, the way a backtracking matcher does:
\* the hour takes two digits before one, the minute likewise, and the
\* optional seconds group is taken when it matches.
TimeMatchWith(s, i, hl) ==
    LET ml == DigitRun(s, i + hl + 1)
        sp == i + hl + 1 + ml
        sl == IF At(s, sp) = ":" THEN DigitRun(s, sp + 1) ELSE 0
    IN  [ok |-> hl >= 1 /\ hl <= DigitRun(s, i) /\ At(s, i + hl) = ":" /\ ml >= 1,
         h |-> Slice(s, i, i + hl - 1),
         mi |-> Slice(s, i + hl + 1, i + hl + ml),
         hasS |-> sl >= 1,
         sec |-> Slice(s, sp + 1, sp + sl),
         stop |-> IF sl >= 1 THEN sp + sl ELSE sp - 1]

TimeMatchAt(s, i) ==
    IF TimeMatchWith(s, i, 2).ok THEN TimeMatchWith(s, i, 2)
    ELSE TimeMatchWith(s, i, 1)

\* _repl: the replacement of one match.
repl(m) ==
    LET h == clamp_2d(m.h, 23)
        mi == clamp_2d(m.mi, 59)
    IN  IF m.hasS
        THEN h \o <<":">> \o mi \o <<":">> \o clamp_2d(m.sec, 59)
        ELSE h \o <<":">> \o mi

\* TIME_REGEX.sub(_repl, text, count=1): the leftmost match is replaced.
fix_invalid_time(s) ==
    LET hits == {i \in 1..Len(s) : TimeMatchAt(s, i).ok}
    IN  IF hits = {} THEN s
        ELSE LET i == CHOOSE j \in hits : \A k \in hits : j <= k
                 m == TimeMatchAt(s, i)
             IN  Slice(s, 1, i - 1) \o repl(m) \o Slice(s, m.stop + 1, Len(s))

TimeAlphabet == {"2", "7", ":", "x"}

Idle == <<"<idle>">>

PipeIdle ==
    /\ input = Idle /\ df = Idle /\ max_rows = 0 /\ max_allowed_size = 0
    /\ cleaned_file = Idle /\ split_dir = Idle /\ report_file = Idle
    /\ start = 0 /\ end = 0 /\ part = 0 /\ size_b = 0 /\ chunks = <<>>
    /\ logged = FALSE /\ deleted = Idle

TimeInit ==
    /\ pc = "fix_invalid_time"
    /\ text \in TextsUpTo(TimeAlphabet, MaxTextLen)
    /\ fixed = Idle
    /\ val = Idle /\ parse = Idle /\ ret = Idle
    /\ PipeIdle

FixInvalidTime ==
    /\ pc = "fix_invalid_time"
    /\ fixed' = fix_invalid_time(text)
    /\ pc' = "fix_invalid_time_done"
    /\ UNCHANGED <<text, normVars, pipeVars>>

TimeNext == FixInvalidTime

TimeSpec == TimeInit /\ [][TimeNext]_vars

(* C10: time repair rewrites only the first H:M[:S] occurrence of the      *)
(* text: with the occurrence taken as the leftmost one and, there, the     *)
(* longest, the hour h becomes min(h, 23) and the minute and the second f  *)
(* become min(f, 59), each as two zero-padded digits, the seconds are kept *)
(* iff they were there, and the text before and after the occurrence is    *)
(* unchanged; a text with no occurrence is returned as it is.              *)
AllDigits(s, i, n) == \A k \in i..(i + n - 1) : At(s, k) \in Digits

\* The H:M[:S] shapes that start at i: a, b, c digits (c = 0: no seconds).
Shapes(s, i) ==
    {o \in [a : 1..2, b : 1..2, c : 0..2] :
        /\ AllDigits(s, i, o.a)
        /\ At(s, i + o.a) = ":"
        /\ AllDigits(s, i + o.a + 1, o.b)
        /\ o.c > 0 => /\ At(s, i + o.a + o.b + 1) = ":"
                      /\ AllDigits(s, i + o.a + o.b + 2, o.c)}

ShapeLen(o) == o.a + 1 + o.b + (IF o.c > 0 THEN 1 + o.c ELSE 0)

TwoDigits(n) == <<DigitChars[(n \div 10) + 1], DigitChars[(n % 10) + 1]>>

Repaired(s, i, o) ==
    LET hv == int(Slice(s, i, i + o.a - 1))
        mv == int(Slice(s, i + o.a + 1, i + o.a + o.b))
        sv == int(Slice(s, i + o.a + o.b + 2, i + o.a + o.b + 1 + o.c))
    IN  Slice(s, 1, i - 1)
        \o TwoDigits(IF hv < 23 THEN hv ELSE 23) \o <<":">>
        \o TwoDigits(IF mv < 59 THEN mv ELSE 59)
        \o (IF o.c > 0 THEN <<":">> \o TwoDigits(IF sv < 59 THEN sv ELSE 59)
            ELSE <<>>)
        \o Slice(s, i + ShapeLen(o), Len(s))

C10_TimeRepair ==
    pc = "fix_invalid_time_done" =>
        LET starts == {i \in 1..Len(text) : Shapes(text, i) # {}}
        IN  IF starts = {} THEN fixed = text
            ELSE \E i \in starts : \E o \in Shapes(text, i) :
                    /\ \A k \in starts : i <= k
                    /\ \A q \in Shapes(text, i) : ShapeLen(q) <= ShapeLen(o)
                    /\ fixed = Repaired(text, i, o)

\* Witness: an occurrence with seconds and an hour out of range, after a
\* character that stays as it is.
C10_Witness ==
    /\ pc = "fix_invalid_time_done"
    /\ text = <<"x", "2", "7", ":", "2", ":", "7">>
    /\ fixed = <<"x", "2", "3", ":", "0", "2", ":", "0", "7">>

-----------------------------------------------------------------------------
(* The patterns (lines 23-29), matched by the set of positions a prefix of *)
(* the pattern can end at: a position is the number of characters read.    *)

Punct == {"-", "/", ".", ":", "+", "|", "\"", ","}
Chars == Digits \cup Letters \cup {"_"} \cup Spaces \cup Punct
NotNewline == Chars \ {"\n"}

\* One character of class C after a position of P.
One(s, P, C) == {p + 1 : p \in {q \in P : At(s, q + 1) \in C}}

\* Exactly n characters of class C.
RECURSIVE Times(_, _, _, _)
Times(s, P, C, n) == IF n = 0 THEN P ELSE Times(s, One(s, P, C), C, n - 1)

\* C{lo,hi}.
Rep(s, P, C, lo, hi) == UNION {Times(s, P, C, n) : n \in lo..hi}

\* C*.
RECURSIVE Star(_, _, _)
Star(s, P, C) ==
    LET Q == P \cup One(s, P, C)
    IN  IF Q = P THEN P ELSE Star(s, Q, C)

\* C+.
Plus(s, P, C) == Star(s, One(s, P, C), C)

\* (?:\s+\d{1,2}:\d{1,2}(?::\d{1,2})?)?
OptTime(s, P) ==
    LET hm == Rep(s, One(s, Rep(s, Plus(s, P, Spaces), Digits, 1, 2),
                         {":"}),
                  Digits, 1, 2)
    IN  P \cup hm \cup Rep(s, One(s, hm, {":"}), Digits, 1, 2)

\* \s*$ after the positions P: the pattern matches the whole of s.
AtEnd(s, P) == Len(s) \in Star(s, P, Spaces)

\* ISO_TZ_REGEX.match(s): ^\s*\d{4}-\d{2}-\d{2}T.*(?:Z|[+-]\d{2}:\d{2})?\s*$
ISO_TZ_REGEX(s) ==
    LET d == One(s, Times(s, One(s, Times(s, One(s, Times(s, Star(s, {0}, Spaces),
                 Digits, 4), {"-"}), Digits, 2), {"-"}), Digits, 2), {"T"})
        rest == Star(s, d, NotNewline)
        zone == One(s, rest, {"Z"})
                \cup Times(s, One(s, Times(s, One(s, rest, {"+", "-"}), Digits, 2),
                                  {":"}), Digits, 2)
    IN  AtEnd(s, rest \cup zone)

\* DATE_PATTERNS[0]: D[D]/M[M]/YY[YY] or with dashes, optional time.
DATE_PATTERN_0(s) ==
    LET d == Rep(s, One(s, Rep(s, One(s, Rep(s, Star(s, {0}, Spaces),
                 Digits, 1, 2), {"-", "/"}), Digits, 1, 2), {"-", "/"}),
                 Digits, 2, 4)
    IN  AtEnd(s, OptTime(s, d))

\* DATE_PATTERNS[1]: YYYY/M[M]/D[D] or with dashes, optional time.
DATE_PATTERN_1(s) ==
    LET d == Rep(s, One(s, Rep(s, One(s, Times(s, Star(s, {0}, Spaces),
                 Digits, 4), {"-", "/"}), Digits, 1, 2), {"-", "/"}),
                 Digits, 1, 2)
    IN  AtEnd(s, OptTime(s, d))

\* DATE_PATTERNS[2]: D[D]-Mon-YY[YY] or with dots, optional time.
DATE_PATTERN_2(s) ==
    LET d == Rep(s, One(s, Times(s, One(s, Rep(s, Star(s, {0}, Spaces),
                 Digits, 1, 2), {"-", "."}), WordChars, 3), {"-", "."}),
                 Digits, 2, 4)
    IN  AtEnd(s, OptTime(s, d))

\* _looks_like_date (lines 53-56).
looks_like_date(s) ==
    \/ ISO_TZ_REGEX(s)
    \/ DATE_PATTERN_0(s) \/ DATE_PATTERN_1(s) \/ DATE_PATTERN_2(s)

-----------------------------------------------------------------------------
(* normalize_cell (lines 58-91).  Lines 60-63 unwrap a list or a Series;   *)
(* the cells main() passes are strings or NaN, so they do not apply.       *)
(* Lines 78-91 hand the repaired text to pandas' to_datetime, which is not *)
(* code of this program: what it makes of the text is the input `p`, NaT   *)
(* (nothing parsed), a date or a date with a time, and the rendering of a  *)
(* parsed value is kept symbolic.                                          *)

ParseOutcomes == {"NaT", "date", "datetime"}

strftime(p, s_fixed) == <<"<strftime>", p>> \o s_fixed

\* Whether normalize_cell reaches the parser (line 76).
ReachesParser(v) ==
    /\ v # NaN
    /\ strip(v) # <<>>
    /\ looks_like_date(strip(v))
    /\ ~ISO_TZ_REGEX(strip(v))

\* A variant without lines 73-74: ISO strings are parsed like the rest.
normalize_cell_reparse(v, p) ==
    IF v = NaN THEN v
    ELSE LET s == strip(v)
         IN  IF s = <<>> THEN s
             ELSE IF ~looks_like_date(s) THEN v
             ELSE IF p = "NaT" THEN v
             ELSE strftime(p, fix_invalid_time(s))

normalize_cell(v, p) ==
    IF v = NaN THEN v                               \* lines 65-66
    ELSE LET s == strip(v)                          \* line 68
         IN  IF s = <<>> THEN s                     \* lines 69-70
             ELSE IF ~looks_like_date(s) THEN v     \* lines 71-72
             ELSE IF ISO_TZ_REGEX(s) THEN s         \* lines 73-74
             ELSE IF p = "NaT" THEN v               \* lines 88-89
             ELSE strftime(p, fix_invalid_time(s))  \* lines 76-83, 90-91

\* The arguments the model calls normalize_cell with: NaN and the texts
\* made of at most MaxTokens of these pieces.
Tokens ==
    {<<"2", "0", "2", "3", "-", "0", "1", "-", "0", "2">>,
     <<"1", "/", "2", "/", "2", "0", "2", "3">>,
     <<"1", "-", "a", "a", "a", "-", "2", "3">>,
     <<"T">>, <<" ">>, <<"2", "5", ":", "7", "5">>, <<"Z">>, <<"x">>}

RECURSIVE Concat(_)
Concat(ts) == IF ts = <<>> THEN <<>> ELSE Head(ts) \o Concat(Tail(ts))

NormInputs ==
    {NaN} \cup {Concat(ts) : ts \in UNION {[1..k -> Tokens] : k \in 0..MaxTokens}}

NormInit ==
    /\ pc = "normalize_cell"
    /\ val \in NormInputs
    /\ parse = Idle /\ ret = Idle
    /\ text = Idle /\ fixed = Idle
    /\ PipeIdle

NormalizeCell ==
    /\ pc = "normalize_cell"
    /\ \E p \in ParseOutcomes :
        /\ ret' = normalize_cell(val, p)
        /\ parse' = IF ReachesParser(val) THEN p ELSE Idle
    /\ pc' = "normalize_cell_done"
    /\ UNCHANGED <<val, timeVars, pipeVars>>

NormNext == NormalizeCell

NormSpec == NormInit /\ [][NormNext]_vars

\* The ISO-with-zone shape, read off the text: optional blanks, four
\* digits, two digits and two digits with dashes between, a T, and then
\* anything on the same line.
IsoShape(s) ==
    LET t == lstrip(s)
    IN  /\ Len(t) >= 11
        /\ \A i \in {1, 2, 3, 4, 6, 7, 9, 10} : t[i] \in Digits
        /\ t[5] = "-" /\ t[8] = "-" /\ t[11] = "T"
        /\ \A i \in 12..Len(rstrip(t)) : t[i] # "\n"

(* C6 as claimed: a cell whose trimmed form has the ISO-with-zone shape is *)
(* returned verbatim, normalize(s) = s.                                    *)
C6_Verbatim ==
    (pc = "normalize_cell_done" /\ val # NaN /\ IsoShape(strip(val))) => ret = val

(* C6 as amended: a cell whose trimmed form has the ISO-with-zone shape is *)
(* returned trimmed and otherwise as it is (never parsed or reformatted):  *)
(* normalize(s) = strip(s), which is s when s has no blanks around it.     *)
C6_Trimmed ==
    (pc = "normalize_cell_done" /\ val # NaN /\ IsoShape(strip(val))) =>
        /\ ret = strip(val)
        /\ (val = strip(val) => ret = val)

\* Witness: an ISO text with a blank before and after it came back trimmed.
C6_Witness ==
    /\ pc = "normalize_cell_done"
    /\ val # NaN
    /\ IsoShape(strip(val))
    /\ val # strip(val)
    /\ ret = strip(val)

(* C7: a cell that is missing, empty or blank, or that matches no date     *)
(* shape, is returned exactly as it came.                                  *)
C7_Unchanged ==
    (pc = "normalize_cell_done"
     /\ (val = NaN \/ strip(val) = <<>> \/ ~looks_like_date(strip(val))))
        => ret = val

-----------------------------------------------------------------------------
(* Tables and CSV files.  A table (a DataFrame read with dtype=str) is its *)
(* column names and its rows, each row a sequence of cells; a CSV file is  *)
(* its header and its lines, each line a sequence of field texts.  Bytes   *)
(* are counted for UTF-8 text of one-byte characters and a one-byte line   *)
(* terminator.                                                             *)

\* The values pd.read_csv reads as missing, among the texts of the model.
NAValues == {<<>>, <<"N", "U", "L", "L">>, <<"n", "a", "n">>, <<"N", "a", "N">>}

RECURSIVE Sum(_)
Sum(ns) == IF ns = <<>> THEN 0 ELSE Head(ns) + Sum(Tail(ns))

\* csv.writer with QUOTE_MINIMAL: a field with a delimiter, a quote or a
\* line break is quoted, its quotes doubled.
FieldBytes(f) ==
    IF \E i \in 1..Len(f) : f[i] \in {",", "\"", "\n"}
    THEN Len(f) + 2 + Cardinality({i \in 1..Len(f) : f[i] = "\""})
    ELSE Len(f)

\* One written line: the fields, the commas between them and the line end;
\* a line of one empty field is written as "".
LineBytes(fields) ==
    IF fields = <<>> THEN 1
    ELSE IF Len(fields) = 1 /\ fields[1] = <<>> THEN 3
    ELSE Sum([i \in 1..Len(fields) |-> FieldBytes(fields[i])]) + Len(fields)

HeaderBytes(names) ==
    IF names = <<>> THEN 1
    ELSE Sum([i \in 1..Len(names) |-> Len(names[i])]) + Len(names)

\* os.path.getsize of a written file.
getsize(file) ==
    HeaderBytes(file.header)
    + Sum([i \in 1..Len(file.lines) |-> LineBytes(file.lines[i])])

\* DataFrame.to_csv(index=False): a missing cell is written as the empty field.
to_csv(table) ==
    [header |-> table.columns,
     lines |-> [i \in 1..Len(table.rows) |->
                  [j \in 1..Len(table.rows[i]) |->
                      IF table.rows[i][j] = NaN THEN <<>> ELSE table.rows[i][j]]]]

\* pd.read_csv(dtype=str): every field is text, the NA values are missing.
read_csv(file) ==
    [columns |-> file.header,
     rows |-> [i \in 1..Len(file.lines) |->
                  [j \in 1..Len(file.lines[i]) |->
                      IF file.lines[i][j] \in NAValues THEN NaN
                      ELSE file.lines[i][j]]]]

\* df.iloc[a:b], rows a+1 .. b counted from 1.
iloc(table, a, b) == [columns |-> table.columns, rows |-> Slice(table.rows, a + 1, b)]

EmptyDir == [n \in {} |-> <<>>]

\* A file that does not exist, a value that is not there.
NoFile == [absent |-> TRUE]
Absent(f) == "absent" \in DOMAIN f

\* The directory with file f written (created or overwritten) under name n.
WriteFile(dir, n, f) ==
    [m \in DOMAIN dir \cup {n} |-> IF m = n THEN f ELSE dir[m]]

base_name == "cleaned"

\* A variant that names every chunk file alike.
ChunkName_same(p) == [base |-> base_name, part |-> 1, ext |-> ".csv"]

\* f"{base_name}_part{part}.csv" (line 106).
ChunkName(p) == [base |-> base_name, part |-> p, ext |-> ".csv"]

-----------------------------------------------------------------------------
(* split_csv (lines 94-126).  Sizes are compared in bytes: size_mb and     *)
(* max_allowed_size are both byte counts over 1024 * 1024.                 *)

\* A variant that shrinks without the floor of one row (lines 115-116).
NewChunkSizes_nofloor(n, size, ceiling) == {(n * ceiling) \div size}

\* Lines 113-116: int((end - start) / (size_mb / max_allowed_size)), at
\* least 1.  The quotient is computed in floating point: where it is a whole
\* number k exactly, rounding may leave it just under k, and int() then
\* yields k - 1.
NewChunkSizes(n, size, ceiling) ==
    LET k == (n * ceiling) \div size
        ks == IF (n * ceiling) % size = 0 THEN {k, k - 1} ELSE {k}
    IN  {Max(1, j) : j \in ks}

Rows == Len(df.rows)

\* Lines 102-109: a chunk of up to max_rows rows is written and measured.
SplitPropose ==
    /\ pc = "split"
    /\ start < Rows
    /\ LET e == Min(start + max_rows, Rows)
           f == to_csv(iloc(df, start, e))
       IN  /\ end' = e
           /\ split_dir' = WriteFile(split_dir, ChunkName(part), f)
           /\ size_b' = getsize(f)
    /\ pc' = "shrink"
    /\ UNCHANGED <<timeVars, normVars, input, df, max_rows, max_allowed_size,
                   cleaned_file, report_file, start, part, chunks, logged,
                   deleted>>

\* Lines 112-121: one pass of the shrink loop.
SplitShrink ==
    /\ pc = "shrink"
    /\ size_b > max_allowed_size
    /\ end - start > 1
    /\ \E new_chunk_size \in NewChunkSizes(end - start, size_b, max_allowed_size) :
          LET f == to_csv(iloc(df, start, start + new_chunk_size))
          IN  /\ end' = start + new_chunk_size
              /\ split_dir' = WriteFile(split_dir, ChunkName(part), f)
              /\ size_b' = getsize(f)
    /\ UNCHANGED <<pc, timeVars, normVars, input, df, max_rows,
                   max_allowed_size, cleaned_file, report_file, start, part,
                   chunks, logged, deleted>>

\* A variant that advances the cursor one row too far.
SplitRecord_skip ==
    /\ pc = "shrink"
    /\ ~(size_b > max_allowed_size /\ end - start > 1)
    /\ chunks' = Append(chunks, [part |-> part, start |-> start, end |-> end])
    /\ start' = end + 1
    /\ part' = part + 1
    /\ pc' = "split"
    /\ UNCHANGED <<timeVars, normVars, input, df, max_rows, max_allowed_size,
                   cleaned_file, split_dir, report_file, end, size_b, logged,
                   deleted>>

\* A variant that leaves the shrink loop after its first pass.
SplitRecord_early ==
    /\ pc = "shrink"
    /\ chunks' = Append(chunks, [part |-> part, start |-> start, end |-> end])
    /\ start' = end
    /\ part' = part + 1
    /\ pc' = "split"
    /\ UNCHANGED <<timeVars, normVars, input, df, max_rows, max_allowed_size,
                   cleaned_file, split_dir, report_file, end, size_b, logged,
                   deleted>>

\* Lines 112, 123-126: the shrink loop is over; the chunk stands as written,
\* the cursor moves past it and the part counter goes up.
SplitRecord ==
    /\ pc = "shrink"
    /\ ~(size_b > max_allowed_size /\ end - start > 1)
    /\ chunks' = Append(chunks, [part |-> part, start |-> start, end |-> end])
    /\ start' = end
    /\ part' = part + 1
    /\ pc' = "split"
    /\ UNCHANGED <<timeVars, normVars, input, df, max_rows, max_allowed_size,
                   cleaned_file, split_dir, report_file, end, size_b, logged,
                   deleted>>

\* Line 102: no rows remain, split_csv returns.
SplitReturn ==
    /\ pc = "split"
    /\ ~(start < Rows)
    /\ pc' = "validate"
    /\ UNCHANGED <<timeVars, normVars, pipeVars>>

\* The byte ceilings of the model.
Ceilings == {8 * k : k \in 1..MaxCeilK}

\* The header main() leaves on a table that had an Id column.
CleanColumns == <<"Legacy_SF_Record_ID__c", "c">>

\* Rows of a cleaned table, of 6, 3 and 8 bytes when written.
SplitRows ==
    {<<<<"a">>, <<"a", "|", "a">>>>,
     <<NaN, <<"a">>>>,
     <<<<"a", "|", "a">>, <<"a", "|", "a">>>>}

TablesOf(columns, rowSet, lo, hi) ==
    {[columns |-> columns, rows |-> rs] :
        rs \in UNION {[1..k -> rowSet] : k \in lo..hi}}

\* split_csv called on a table of the given rows, with an empty output
\* directory.
SplitInitOf(rowSet) ==
    /\ pc = "split"
    /\ df \in TablesOf(CleanColumns, rowSet, 0, MaxTableRows)
    /\ max_rows \in 1..MaxRowLimit
    /\ max_allowed_size \in Ceilings
    /\ split_dir = EmptyDir
    /\ start = 0 /\ part = 1                            \* lines 96-97
    /\ end = 0 /\ size_b = 0 /\ chunks = <<>>
    /\ input = Idle /\ cleaned_file = Idle /\ report_file = Idle
    /\ logged = FALSE /\ deleted = Idle
    /\ text = Idle /\ fixed = Idle
    /\ val = Idle /\ parse = Idle /\ ret = Idle

SplitInit == SplitInitOf(SplitRows)

SplitNext == SplitPropose \/ SplitShrink \/ SplitRecord \/ SplitReturn

SplitSpec == SplitInit /\ [][SplitNext]_vars

\* The rows of 3 and 8 bytes.
FairRows == {r \in SplitRows : r[1] = NaN \/ Len(r[1]) > 1}

SplitFairInit == SplitInitOf(FairRows)

\* split_csv is sequential code: a step that can be taken is taken.
SplitFairSpec == SplitFairInit /\ [][SplitNext]_vars /\ WF_vars(SplitNext)

\* The lines of the chunk file recorded as chunks[i].
ChunkLines(i) == split_dir[ChunkName(chunks[i].part)].lines

\* A recorded chunk that the shrink loop cut short: it has fewer rows than
\* max_rows although more rows followed it.
WasShrunk(i) ==
    /\ chunks[i].end - chunks[i].start < max_rows
    /\ chunks[i].end < Rows

(* C1: the recorded chunks are contiguous row ranges [start_i, end_i) of   *)
(* the table, the first starting at 0, each starting where the one before  *)
(* ended, and each chunk file holds exactly the rows of its range, in      *)
(* order; when split_csv has finished the last range ends at len(T), the   *)
(* row counts add up to len(T) and the chunk files, concatenated in part   *)
(* order, are the table row for row.                                       *)
C1_Partition ==
    /\ \A i \in 1..Len(chunks) :
          /\ chunks[i].start = (IF i = 1 THEN 0 ELSE chunks[i - 1].end)
          /\ chunks[i].start < chunks[i].end
          /\ chunks[i].end <= Rows
          /\ ChunkLines(i)
               = Slice(to_csv(df).lines, chunks[i].start + 1, chunks[i].end)
    /\ pc = "validate" =>
          /\ (IF chunks = <<>> THEN 0 ELSE chunks[Len(chunks)].end) = Rows
          /\ Sum([i \in 1..Len(chunks) |-> Len(ChunkLines(i))]) = Rows
          /\ Concat([i \in 1..Len(chunks) |-> ChunkLines(i)]) = to_csv(df).lines

\* Witness: a finished split of three chunks, the first of them shrunk.
C1_Witness ==
    /\ pc = "validate"
    /\ Len(chunks) = 3
    /\ WasShrunk(1)

(* C2: every recorded chunk file has at most max_rows rows, and its size   *)
(* in bytes is at most the ceiling unless it holds exactly one row.        *)
C2_SizeBound ==
    \A i \in 1..Len(chunks) :
        /\ Len(ChunkLines(i)) <= max_rows
        /\ \/ getsize(split_dir[ChunkName(chunks[i].part)]) <= max_allowed_size
           \/ Len(ChunkLines(i)) = 1

\* Witness: one recorded chunk of a single row over the ceiling, and one of
\* several rows that was shrunk to fit under it.
C2_Witness ==
    /\ \E i \in 1..Len(chunks) :
          /\ Len(ChunkLines(i)) = 1
          /\ getsize(split_dir[ChunkName(chunks[i].part)]) > max_allowed_size
    /\ \E i \in 1..Len(chunks) :
          /\ Len(ChunkLines(i)) > 1
          /\ WasShrunk(i)
          /\ getsize(split_dir[ChunkName(chunks[i].part)]) <= max_allowed_size

\* The names {baseName}_part1.csv .. {baseName}_part{k}.csv.
PartNames(k) == {[base |-> base_name, part |-> n, ext |-> ".csv"] : n \in 1..k}

(* C5: with k chunks recorded into a directory that was empty, the         *)
(* directory holds exactly the files part 1 .. part k, the i-th recorded   *)
(* chunk being part i; while chunk k + 1 is being fitted, its file is the  *)
(* one file more, however often it is shrunk and written again.            *)
C5_PartNumbers ==
    /\ \A i \in 1..Len(chunks) : chunks[i].part = i
    /\ part = Len(chunks) + 1
    /\ pc \in {"split", "validate"} => DOMAIN split_dir = PartNames(Len(chunks))
    /\ pc = "shrink" => DOMAIN split_dir = PartNames(Len(chunks) + 1)

\* Witness: two chunks recorded, the second one shrunk, and a third being
\* fitted.
C5_Witness ==
    /\ pc = "shrink"
    /\ Len(chunks) = 2
    /\ WasShrunk(2)
    /\ Cardinality(DOMAIN split_dir) = 3

(* C9: every pass of the shrink loop leaves the chunk with fewer rows than *)
(* before, and at least one; the loop is left with the chunk at or under   *)
(* the ceiling or at exactly one row; and split_csv terminates with the    *)
(* cursor at the table's row count.                                        *)
C9_Terminates ==
    /\ [][(pc = "shrink" /\ pc' = "shrink") =>
             /\ start' = start
             /\ end' - start' < end - start
             /\ end' - start' >= 1]_vars
    /\ [][(pc = "shrink" /\ pc' = "split") =>
             (size_b <= max_allowed_size \/ end - start = 1)]_vars
    /\ <>(pc = "validate" /\ start = Rows)

\* Witness: split_csv has returned after shrinking a chunk down to one row
\* that is still over the ceiling.
C9_Witness ==
    /\ pc = "validate"
    /\ start = Rows
    /\ max_rows > 1
    /\ \E i \in 1..Len(chunks) :
          /\ WasShrunk(i)
          /\ chunks[i].end - chunks[i].start = 1
          /\ getsize(split_dir[ChunkName(chunks[i].part)]) > max_allowed_size

-----------------------------------------------------------------------------
(* validate_data (lines 129-165).                                          *)

RECURSIVE JoinAll(_)
JoinAll(parts) ==
    IF parts = <<>> THEN <<>>
    ELSE IF Len(parts) = 1 THEN parts[1]
    ELSE parts[1] \o <<"|">> \o JoinAll(Tail(parts))

\* hash_row: the cells joined by "|", a missing cell as NULL.  The MD5
\* digest of the joined text is represented by the text itself: distinct
\* texts are taken to have distinct digests.
hash_row(row) ==
    JoinAll([j \in 1..Len(row) |->
                IF row[j] = NaN THEN <<"N", "U", "L", "L">> ELSE row[j]])

Hashes(table) == {hash_row(table.rows[i]) : i \in 1..Len(table.rows)}

RECURSIVE SumOver(_, _)
SumOver(names, dir) ==
    IF names = {} THEN 0
    ELSE LET n == CHOOSE m \in names : TRUE
         IN  Len(dir[n].lines) + SumOver(names \ {n}, dir)

\* A variant that only looks for fingerprints the original does not have.
validate_data_subset(cleaned, dir) ==
    LET df_original == read_csv(cleaned)
        split_files == {n \in DOMAIN dir : n.ext = ".csv"}
        combined_rows == SumOver(split_files, dir)
        combined_hashes == UNION {Hashes(read_csv(dir[n])) : n \in split_files}
    IN  [orig_rows |-> Len(df_original.rows),
         combined_rows |-> combined_rows,
         column_mismatch |->
             {n \in split_files : dir[n].header # df_original.columns},
         row_count |-> IF Len(df_original.rows) = combined_rows
                       THEN "Row count matches." ELSE "Row count mismatch!",
         data |-> IF combined_hashes \subseteq Hashes(df_original)
                  THEN "Data integrity passed." ELSE "Data mismatch detected!"]

\* validate_data: what the report says.  os.listdir's order does not show:
\* the row counts are added and the fingerprints united.
validate_data(cleaned, dir) ==
    LET df_original == read_csv(cleaned)                          \* line 141
        orig_hashes == Hashes(df_original)                        \* line 144
        split_files == {n \in DOMAIN dir : n.ext = ".csv"}        \* line 146
        combined_rows == SumOver(split_files, dir)                \* line 152
        combined_hashes ==                                        \* line 155
            UNION {Hashes(read_csv(dir[n])) : n \in split_files}
    IN  [orig_rows |-> Len(df_original.rows),
         combined_rows |-> combined_rows,
         column_mismatch |->                                      \* line 153
             {n \in split_files : read_csv(dir[n]).columns # df_original.columns},
         row_count |-> IF Len(df_original.rows) = combined_rows   \* line 159
                       THEN "Row count matches." ELSE "Row count mismatch!",
         data |-> IF orig_hashes = combined_hashes                \* line 160
                  THEN "Data integrity passed." ELSE "Data mismatch detected!"]

-----------------------------------------------------------------------------
(* main (lines 168-221).                                                   *)

\* config.get("required_columns", []) and config.get("rich_text_columns", []).
required_columns == <<>>
rich_text_columns == <<>>

InSeq(x, seq) == \E i \in 1..Len(seq) : seq[i] = x

\* The table with the columns at the given positions, in that order.
Project(table, idx) ==
    [columns |-> [k \in 1..Len(idx) |-> table.columns[idx[k]]],
     rows |-> [i \in 1..Len(table.rows) |->
                 [k \in 1..Len(idx) |-> table.rows[i][idx[k]]]]]

Positions(n) == [i \in 1..n |-> i]

\* astype(str): a missing cell becomes the text nan.
astype_str(v) == IF v = NaN THEN <<"n", "a", "n">> ELSE v

\* str.replace('"', '""') and the quotes around it (lines 197-198).
RECURSIVE DoubleQuotes(_)
DoubleQuotes(s) ==
    IF s = <<>> THEN <<>>
    ELSE (IF Head(s) = "\"" THEN <<"\"", "\"">> ELSE <<Head(s)>>)
         \o DoubleQuotes(Tail(s))

\* Lines 182-184: only the required columns that exist, in their order.
KeepRequired(table) ==
    IF required_columns = <<>> THEN table
    ELSE LET wanted == SelectSeq(required_columns,
                                 LAMBDA c : InSeq(c, table.columns))
         IN  Project(table,
                     [k \in 1..Len(wanted) |->
                         CHOOSE j \in 1..Len(table.columns) :
                             table.columns[j] = wanted[k]])

\* Lines 187-188: columns that are all missing, then columns that are all
\* blank text, are removed.
DropEmpty(table) ==
    LET t1 == Project(table,
                  SelectSeq(Positions(Len(table.columns)),
                            LAMBDA j : \E i \in 1..Len(table.rows) :
                                          table.rows[i][j] # NaN))
    IN  Project(t1,
            SelectSeq(Positions(Len(t1.columns)),
                      LAMBDA j : \E i \in 1..Len(t1.rows) :
                                    strip(astype_str(t1.rows[i][j])) # <<>>))

\* Lines 191-192.  pandas' parser is left out of it: the cells of the
\* model's tables do not reach it.
Normalize(table) ==
    [columns |-> table.columns,
     rows |-> [i \in 1..Len(table.rows) |->
                 [j \in 1..Len(table.columns) |->
                     normalize_cell(table.rows[i][j], "NaT")]]]

\* Lines 195-198.
WrapRichText(table) ==
    [columns |-> table.columns,
     rows |-> [i \in 1..Len(table.rows) |->
                 [j \in 1..Len(table.columns) |->
                     IF InSeq(table.columns[j], rich_text_columns)
                     THEN <<"\"">> \o DoubleQuotes(astype_str(table.rows[i][j]))
                          \o <<"\"">>
                     ELSE table.rows[i][j]]]]

\* Lines 201-202.
RenameId(table) ==
    [columns |-> [j \in 1..Len(table.columns) |->
                     IF table.columns[j] = "Id" THEN "Legacy_SF_Record_ID__c"
                     ELSE table.columns[j]],
     rows |-> table.rows]

\* Lines 181-204.
Clean(table) == RenameId(WrapRichText(Normalize(DropEmpty(KeepRequired(table)))))

\* Lines 171-179: the read is tried as UTF-8; a UnicodeDecodeError is
\* answered by a second read as ISO-8859-1 inside its handler, any other
\* exception is printed and main returns.  An exception of the second read
\* is raised inside the first handler, where the later except clause of the
\* same try statement does not apply: it leaves main.
ReadCsv ==
    /\ pc = "read"
    /\ \E first \in {"ok", "UnicodeDecodeError", "Exception"} :
          \/ /\ first = "ok"
             /\ df' = input
             /\ pc' = "clean"
             /\ UNCHANGED logged
          \/ /\ first = "UnicodeDecodeError"
             /\ \E second \in {"ok", "Exception"} :
                   \/ /\ second = "ok"
                      /\ df' = input
                      /\ pc' = "clean"
                   \/ /\ second = "Exception"
                      /\ df' = df
                      /\ pc' = "raised"
             /\ UNCHANGED logged
          \/ /\ first = "Exception"
             /\ logged' = TRUE
             /\ df' = df
             /\ pc' = "returned"
    /\ UNCHANGED <<timeVars, normVars, input, max_rows, max_allowed_size,
                   cleaned_file, split_dir, report_file, start, end, part,
                   size_b, chunks, deleted>>

\* Lines 181-204.
CleanTable ==
    /\ pc = "clean"
    /\ df' = Clean(df)
    /\ pc' = "save"
    /\ UNCHANGED <<timeVars, normVars, input, max_rows, max_allowed_size,
                   cleaned_file, split_dir, report_file, start, end, part,
                   size_b, chunks, logged, deleted>>

\* Line 207.
SaveCleaned ==
    /\ pc = "save"
    /\ cleaned_file' = to_csv(df)
    /\ pc' = "cleardir"
    /\ UNCHANGED <<timeVars, normVars, input, df, max_rows, max_allowed_size,
                   split_dir, report_file, start, end, part, size_b, chunks,
                   logged, deleted>>

\* A variant without line 212: the directory is kept as it is.
ClearSplitDir_keep ==
    /\ pc = "cleardir"
    /\ start' = 0
    /\ part' = 1
    /\ pc' = "split"
    /\ UNCHANGED <<timeVars, normVars, input, df, max_rows, max_allowed_size,
                   cleaned_file, split_dir, report_file, end, size_b, chunks,
                   logged, deleted>>

\* Lines 211-217 and 95-97: the directory is removed and made anew, and
\* split_csv is entered.
ClearSplitDir ==
    /\ pc = "cleardir"
    /\ split_dir' = EmptyDir
    /\ start' = 0
    /\ part' = 1
    /\ pc' = "split"
    /\ UNCHANGED <<timeVars, normVars, input, df, max_rows, max_allowed_size,
                   cleaned_file, report_file, end, size_b, chunks, logged,
                   deleted>>

\* Not a step of the program: one row is removed from one chunk file
\* between split_csv and validate_data, once.
DeleteRow ==
    /\ pc = "validate"
    /\ Absent(deleted)
    /\ \E n \in DOMAIN split_dir : \E i \in 1..Len(split_dir[n].lines) :
          /\ split_dir' =
                WriteFile(split_dir, n,
                    [header |-> split_dir[n].header,
                     lines |-> Slice(split_dir[n].lines, 1, i - 1)
                               \o Slice(split_dir[n].lines, i + 1,
                                        Len(split_dir[n].lines))])
          /\ deleted' = [name |-> n, line |-> split_dir[n].lines[i]]
    /\ UNCHANGED <<pc, timeVars, normVars, input, df, max_rows,
                   max_allowed_size, cleaned_file, report_file, start, end,
                   part, size_b, chunks, logged>>

\* Line 220.
Validate ==
    /\ pc = "validate"
    /\ report_file' = validate_data(cleaned_file, split_dir)
    /\ pc' = "done"
    /\ UNCHANGED <<timeVars, normVars, input, df, max_rows, max_allowed_size,
                   cleaned_file, split_dir, start, end, part, size_b, chunks,
                   logged, deleted>>

\* The rows of the input table: an Id and one more column, with a missing
\* Id, a blank Id, and two rows that join to the same text a|a|a.
RawRows ==
    {<<<<"a">>, <<"a", "|", "a">>>>,
     <<<<"a", "|", "a">>, <<"a">>>>,
     <<NaN, <<"a">>>>,
     <<<<" ">>, <<"a">>>>}

\* What an earlier run on a longer table left in the split directory: a
\* part beyond those this run writes.
StaleDir ==
    [n \in {[base |-> base_name, part |-> MaxTableRows + 1, ext |-> ".csv"]} |->
        [header |-> CleanColumns, lines |-> <<<<<<"x">>, <<"x">>>>>>]]

\* main() is started on an input file with at least one row.  (A table
\* without rows loses all its columns on line 187; what pandas then does
\* with a frame and a file without columns is outside this model.)
Init ==
    /\ pc = "read"
    /\ input \in TablesOf(<<"Id", "c">>, RawRows, 1, MaxTableRows)
    /\ df = NoFile
    /\ max_rows \in 1..MaxRowLimit
    /\ max_allowed_size \in Ceilings
    /\ cleaned_file = NoFile
    /\ split_dir = StaleDir
    /\ report_file = NoFile
    /\ start = 0 /\ end = 0 /\ part = 0 /\ size_b = 0 /\ chunks = <<>>
    /\ logged = FALSE
    /\ deleted = NoFile
    /\ text = Idle /\ fixed = Idle
    /\ val = Idle /\ parse = Idle /\ ret = Idle

Next ==
    \/ ReadCsv
    \/ CleanTable
    \/ SaveCleaned
    \/ ClearSplitDir
    \/ SplitPropose
    \/ SplitShrink
    \/ SplitRecord
    \/ SplitReturn
    \/ DeleteRow
    \/ Validate

Spec == Init /\ [][Next]_vars

\* The fingerprint validate_data computes for the deleted row, and those
\* of the rows the chunk files still hold.
DeletedHash ==
    hash_row(read_csv([header |-> cleaned_file.header,
                       lines |-> <<deleted.line>>]).rows[1])

RemainingHashes == UNION {Hashes(read_csv(split_dir[n])) : n \in DOMAIN split_dir}

(* C3 as claimed: with one row deleted from one chunk file of an exact     *)
(* split, the report holds both the row count mismatch and the data        *)
(* mismatch, whichever row was deleted.                                    *)
C3_BothFail ==
    (pc = "done" /\ ~Absent(deleted)) =>
        /\ report_file.row_count = "Row count mismatch!"
        /\ report_file.data = "Data mismatch detected!"

(* C3 as amended: with one row deleted from one chunk file of an exact     *)
(* split, the report always holds the row count mismatch; it holds the     *)
(* data mismatch exactly when no row left in the chunk files has the       *)
(* fingerprint of the deleted row (a duplicate of the deleted row, or a    *)
(* row with the same joined text, hides the deletion from the set          *)
(* comparison).                                                            *)
C3_CountFailsDataIffUnique ==
    (pc = "done" /\ ~Absent(deleted)) =>
        /\ report_file.row_count = "Row count mismatch!"
        /\ report_file.combined_rows = report_file.orig_rows - 1
        /\ (report_file.data = "Data mismatch detected!")
              <=> (DeletedHash \notin RemainingHashes)

\* Witness: a row deleted from a table of two rows with two different
\* fingerprints, split into two chunk files, and both failures reported.
C3_Witness ==
    /\ pc = "done"
    /\ ~Absent(deleted)
    /\ Len(df.rows) = 2
    /\ Cardinality(Hashes(read_csv(cleaned_file))) = 2
    /\ Cardinality(DOMAIN split_dir) = 2
    /\ report_file.row_count = "Row count mismatch!"
    /\ report_file.data = "Data mismatch detected!"

(* C4: split_csv into the emptied directory and then validate_data on the  *)
(* cleaned file and that directory give a report in which both checks      *)
(* pass: the chunk row counts add up to the cleaned table's row count and  *)
(* the chunk fingerprints are the cleaned table's fingerprints.            *)
C4_ExactSplitPasses ==
    (pc = "done" /\ Absent(deleted)) =>
        /\ report_file.row_count = "Row count matches."
        /\ report_file.data = "Data integrity passed."
        /\ report_file.combined_rows = Len(df.rows)
        /\ report_file.orig_rows = Len(df.rows)
        /\ RemainingHashes = Hashes(read_csv(cleaned_file))
        /\ report_file.column_mismatch = {}

\* Witness: a passing report over a split of two chunk files or more, of
\* a table that has a blank cell.
C4_Witness ==
    /\ pc = "done"
    /\ Absent(deleted)
    /\ Cardinality(DOMAIN split_dir) >= 2
    /\ \E i \in 1..Len(df.rows) : df.rows[i][1] = <<>>
    /\ report_file.row_count = "Row count matches."
    /\ report_file.data = "Data integrity passed."

(* C8: a failure to read the input that the one retry does not repair is   *)
(* caught and logged and main returns, with no cleaned file, the split     *)
(* directory untouched, no chunk and no report; also when the failure is   *)
(* that of the retry.  A run that ended on a read failure is at "returned" *)
(* (main returned from its handler) or at "raised" (the exception left     *)
(* main).                                                                  *)
C8_ReadFailureCaught ==
    pc \in {"returned", "raised"} =>
        /\ pc = "returned"
        /\ logged
        /\ Absent(cleaned_file)
        /\ split_dir = StaleDir
        /\ Absent(report_file)

=============================================================================
